---- MODULE Spec2Model ----
(***************************************************************************)
(* Fly-Tipping Impact API: the task store, the submit / result handlers    *)
(* and the background pipeline of src/backend_api/fast_api_server.py,      *)
(* together with the stage functions the pipeline calls.                   *)
(*                                                                         *)
(* Strings are sequences of one-character strings.  Decimal numbers are    *)
(* exact rationals <<numerator, denominator>>; a rounded number is kept as *)
(* an integer count of its last decimal place (30.0 is 300 tenths).        *)
(* All timestamps are one token: nothing below depends on their order.     *)
(***************************************************************************)
EXTENDS Integers, Sequences, FiniteSets, TLC

VARIABLES
    task_results,   \* the module-level dict: task id -> record
    generated,      \* how many ids uuid4 has handed out
    in_submit,      \* submit requests suspended at "await image.read()"
    scheduled,      \* background tasks added and not yet started
    loop,           \* task id whose pipeline holds the event loop, 0 if none
    pc,             \* task id -> position of its pipeline run
    ctx,            \* task id -> locals of its pipeline run
    issued,         \* ids returned to a client by submit
    observed,       \* id -> the last HTTP response sent about that id
    stage_log       \* id -> outcome of each external call of its run

vars == <<task_results, generated, in_submit, scheduled, loop, pc, ctx,
          issued, observed, stage_log>>

----------------------------------------------------------------------------
(* Bounds of the model *)

MaxTasks == 2

----------------------------------------------------------------------------
(* Characters and the str methods get_county_from_postcode uses *)

UpperLetters == <<"A","B","C","D","E","F","G","H","I","J","K","L","M",
                  "N","O","P","Q","R","S","T","U","V","W","X","Y","Z">>

LowerLetters == <<"a","b","c","d","e","f","g","h","i","j","k","l","m",
                  "n","o","p","q","r","s","t","u","v","w","x","y","z">>

IsUpperLetter(c) == \E i \in 1..26 : UpperLetters[i] = c

IsSpace(c) == c = " "

UpperChar(c) ==
    IF \E i \in 1..26 : LowerLetters[i] = c
    THEN UpperLetters[CHOOSE i \in 1..26 : LowerLetters[i] = c]
    ELSE c

\* a resolver that skips the upper-casing
Upper_kept(s) == s

\* str.upper()
Upper(s) == [i \in 1..Len(s) |-> UpperChar(s[i])]

RECURSIVE LStrip(_)
LStrip(s) == IF s # <<>> /\ IsSpace(Head(s)) THEN LStrip(Tail(s)) ELSE s

RECURSIVE RStrip(_)
RStrip(s) ==
    IF s # <<>> /\ IsSpace(s[Len(s)]) THEN RStrip(SubSeq(s, 1, Len(s) - 1)) ELSE s

Strip(s) == RStrip(LStrip(s))

\* str.split()[0] when split() is non-empty: the first whitespace-free run
RECURSIVE LeadingNonSpace(_)
LeadingNonSpace(s) ==
    IF s # <<>> /\ ~IsSpace(Head(s))
    THEN <<Head(s)>> \o LeadingNonSpace(Tail(s))
    ELSE <<>>

FirstPart(s) == LeadingNonSpace(LStrip(s))

\* group 1 of re.match(r"^([A-Z]+)", s), or "" when there is no match
RECURSIVE LeadingLetters(_)
LeadingLetters(s) ==
    IF s # <<>> /\ IsUpperLetter(Head(s))
    THEN <<Head(s)>> \o LeadingLetters(Tail(s))
    ELSE <<>>

\* whether str.split() returns a non-empty list
HasParts(s) == \E i \in 1..Len(s) : ~IsSpace(s[i])

\* a test that finds the key anywhere in s
StartsWith_anywhere(s, key) ==
    \E i \in 0..(Len(s) - Len(key)) : SubSeq(s, i + 1, i + Len(key)) = key

\* str.startswith
StartsWith(s, key) == Len(key) <= Len(s) /\ SubSeq(s, 1, Len(key)) = key

----------------------------------------------------------------------------
(* The postcode table and region resolution *)

\* the dict literal, entry by entry, in source order
POSTCODE_TO_COUNTY_LITERAL == <<
    <<<<"S","W">>, "Greater London">>,
    <<<<"S","E">>, "Greater London">>,
    <<<<"E">>, "Greater London">>,
    <<<<"W">>, "Greater London">>,
    <<<<"N">>, "Greater London">>,
    <<<<"N","W">>, "Greater London">>,
    <<<<"E","C">>, "Greater London">>,
    <<<<"W","C">>, "Greater London">>,
    <<<<"M">>, "Greater Manchester">>,
    <<<<"B">>, "West Midlands">>,
    <<<<"L","S">>, "West Yorkshire">>,
    <<<<"L">>, "Merseyside">>,
    <<<<"S">>, "South Yorkshire">>,
    <<<<"N","E">>, "Tyne and Wear">>,
    <<<<"B","L">>, "Lancashire">>,
    <<<<"M","E">>, "Kent">>,
    <<<<"C","M">>, "Essex">>,
    <<<<"S","O">>, "Hampshire">>,
    <<<<"G","U">>, "Surrey">>,
    <<<<"W","D">>, "Hertfordshire">>,
    <<<<"R","G">>, "Berkshire">>,
    <<<<"H","P">>, "Buckinghamshire">>,
    <<<<"O","X">>, "Oxfordshire">>,
    <<<<"G","L">>, "Gloucestershire">>,
    <<<<"S","N">>, "Wiltshire">>,
    <<<<"B","A">>, "Somerset">>,
    <<<<"E","X">>, "Devon">>,
    <<<<"T","R">>, "Cornwall">>,
    <<<<"B","H">>, "Dorset">>,
    <<<<"B","N">>, "East Sussex">>,
    <<<<"P","O">>, "West Sussex">>,
    <<<<"N","R">>, "Norfolk">>,
    <<<<"I","P">>, "Suffolk">>,
    <<<<"C","B">>, "Cambridgeshire">>,
    <<<<"L","U">>, "Bedfordshire">>,
    <<<<"N","N">>, "Northamptonshire">>,
    <<<<"L","E">>, "Leicestershire">>,
    <<<<"N","G">>, "Nottinghamshire">>,
    <<<<"D","E">>, "Derbyshire">>,
    <<<<"S","T">>, "Staffordshire">>,
    <<<<"S","Y">>, "Shropshire">>,
    <<<<"H","R">>, "Herefordshire">>,
    <<<<"W","R">>, "Worcestershire">>,
    <<<<"C","V">>, "Warwickshire">>,
    <<<<"C","H">>, "Cheshire">>,
    <<<<"C","A">>, "Cumbria">>,
    <<<<"D","H">>, "Durham">>,
    <<<<"N","E">>, "Northumberland">>,
    <<<<"Y","O">>, "North Yorkshire">>,
    <<<<"H","U">>, "East Riding of Yorkshire">>,
    <<<<"L","N">>, "Lincolnshire">>,
    <<<<"L","E">>, "Rutland">>,
    <<<<"P","O">>, "Isle of Wight">>
>>

\* a dict display keeps each key at its first position and its last value
POSTCODE_TO_COUNTY_keys ==
    LET lit == POSTCODE_TO_COUNTY_LITERAL
        first(i) == \A j \in 1..(i - 1) : lit[j][1] # lit[i][1]
        idx == SelectSeq([i \in 1..Len(lit) |-> i], first)
    IN  [n \in 1..Len(idx) |-> lit[idx[n]][1]]

\* a table in which the first entry written for a key stays
POSTCODE_TO_COUNTY_first_entry(key) ==
    LET lit == POSTCODE_TO_COUNTY_LITERAL
        first == CHOOSE i \in 1..Len(lit) :
                     /\ lit[i][1] = key
                     /\ \A j \in 1..(i - 1) : lit[j][1] # key
    IN  lit[first][2]

POSTCODE_TO_COUNTY(key) ==
    LET lit == POSTCODE_TO_COUNTY_LITERAL
        last == CHOOSE i \in 1..Len(lit) :
                    /\ lit[i][1] = key
                    /\ \A j \in (i + 1)..Len(lit) : lit[j][1] # key
    IN  lit[last][2]

\* sorted(keys, key=len): shortest keys first
RECURSIVE ByLenFrom_shortest_first(_, _)
ByLenFrom_shortest_first(keys, n) ==
    IF n = 0 THEN <<>>
    ELSE LET hasLen(k) == Len(k) = n
         IN  ByLenFrom_shortest_first(keys, n - 1) \o SelectSeq(keys, hasLen)

\* sorted(keys, key=len, reverse=True): stable, longest keys first
RECURSIVE ByLenFrom(_, _)
ByLenFrom(keys, n) ==
    IF n = 0 THEN <<>>
    ELSE LET hasLen(k) == Len(k) = n
         IN  SelectSeq(keys, hasLen) \o ByLenFrom(keys, n - 1)

MaxKeyLen(keys) ==
    CHOOSE n \in 0..Len(keys) + 2 :
        /\ \A i \in 1..Len(keys) : Len(keys[i]) <= n
        /\ (n = 0 \/ \E i \in 1..Len(keys) : Len(keys[i]) = n)

SortedKeys == ByLenFrom(POSTCODE_TO_COUNTY_keys, MaxKeyLen(POSTCODE_TO_COUNTY_keys))

\* a default that is no region of the table
DefaultCounty_unknown == "Unknown"

\* line 162 (and 145): the region returned when nothing matches
DefaultCounty == "Greater London"

get_county_from_postcode(postcode) ==
    IF postcode = <<>> THEN DefaultCounty
    ELSE
        LET p == Upper(Strip(postcode))
            outward == IF HasParts(p) THEN FirstPart(p) ELSE p
            area_letters == LeadingLetters(outward)
            hit(i) == StartsWith(outward, SortedKeys[i])
                        \/ StartsWith(area_letters, SortedKeys[i])
        IN  IF \E i \in 1..Len(SortedKeys) : hit(i)
            THEN LET i == CHOOSE i \in 1..Len(SortedKeys) :
                              hit(i) /\ \A j \in 1..(i - 1) : ~hit(j)
                 IN  POSTCODE_TO_COUNTY(SortedKeys[i])
            ELSE DefaultCounty

----------------------------------------------------------------------------
(* Optional values: a missing dict key or None is <<>>, a value v is <<v>> *)

None == <<>>

Some(v) == <<v>>

----------------------------------------------------------------------------
(* Exact decimal arithmetic *)

RECURSIVE GCD(_, _)
GCD(a, b) == IF b = 0 THEN a ELSE GCD(b, a % b)

\* the fraction n/d, d > 0, in lowest terms
Rat(n, d) ==
    LET g == GCD(IF n < 0 THEN -n ELSE n, d)
    IN  <<n \div g, d \div g>>

RMul(a, b) == Rat(a[1] * b[1], a[2] * b[2])

RAdd(a, b) == Rat(a[1] * b[2] + b[1] * a[2], a[2] * b[2])

RNeg(a) == <<-a[1], a[2]>>

RSub(a, b) == RAdd(a, RNeg(b))

RLeq(a, b) == a[1] * b[2] <= b[1] * a[2]

RMin(a, b) == IF RLeq(a, b) THEN a ELSE b

RMax(a, b) == IF RLeq(a, b) THEN b ELSE a

RAbs(a) == IF a[1] < 0 THEN RNeg(a) ELSE a

\* floor of n/d for d > 0
FloorDiv(n, d) == IF n >= 0 THEN n \div d ELSE -((-n + d - 1) \div d)

\* round(x, places) as a count of units of 10^-places; ties go to the even count
Pow10(places) == IF places = 0 THEN 1 ELSE IF places = 1 THEN 10 ELSE 100

Round(x, places) ==
    LET n == x[1] * Pow10(places)
        d == x[2]
        q == FloorDiv(n, d)
        r2 == 2 * (n - q * d)
    IN  IF r2 < d THEN q
        ELSE IF r2 > d THEN q + 1
        ELSE IF q % 2 = 0 THEN q ELSE q + 1

----------------------------------------------------------------------------
(* Tables loaded at import *)

WASTE_SIZE_MULTIPLIERS ==
    [small_bag  |-> Rat(10, 10),
     medium_bag |-> Rat(25, 10),
     large_bag  |-> Rat(50, 10),
     van        |-> Rat(150, 10)]

\* the frame load_county_data() returned: one row per county it holds.  The
\* rows come from an external table; these stand for it, so that some
\* counties of the postcode table are present and the others are not, and so
\* that a coefficient takes an ordinary, a negative and a very large value
county_data == <<
    [county |-> "Greater London",
     air_quality_impact |-> Rat(8, 10),
     co2_emission_kg |-> Rat(125, 10),
     quality_of_life_impact |-> Rat(4, 10)],
    [county |-> "Kent",
     air_quality_impact |-> Rat(4, 10),
     co2_emission_kg |-> Rat(100, 10),
     quality_of_life_impact |-> Rat(2, 10)],
    [county |-> "Essex",
     air_quality_impact |-> Rat(5, 10),
     co2_emission_kg |-> Rat(110, 10),
     quality_of_life_impact |-> Rat(-20, 10)],
    [county |-> "Surrey",
     air_quality_impact |-> Rat(6, 10),
     co2_emission_kg |-> Rat(120, 10),
     quality_of_life_impact |-> Rat(300, 10)]
>>

RECURSIVE ColumnSum(_, _, _)
ColumnSum(rows, col, n) ==
    IF n = 0 THEN Rat(0, 1) ELSE RAdd(ColumnSum(rows, col, n - 1), rows[n][col])

\* DataFrame.mean(numeric_only=True) for one column
ColumnMean(rows, col) == RMul(ColumnSum(rows, col, Len(rows)), Rat(1, Len(rows)))

\* a lookup that takes the first row of the table for an absent county
CountyCoefficients_first_row(county) ==
    LET isCounty(r) == r.county = county
        county_row == SelectSeq(county_data, isCounty)
        row == IF county_row = <<>> THEN county_data[1] ELSE county_row[1]
    IN  [air_quality |-> row.air_quality_impact,
         co2_base |-> row.co2_emission_kg,
         qol_impact |-> row.quality_of_life_impact]

\* lines 169-180: the county's first row, or the column means
CountyCoefficients(county) ==
    LET isCounty(r) == r.county = county
        county_row == SelectSeq(county_data, isCounty)
    IN  IF county_row = <<>>
        THEN [air_quality |-> ColumnMean(county_data, "air_quality_impact"),
              co2_base |-> ColumnMean(county_data, "co2_emission_kg"),
              qol_impact |-> ColumnMean(county_data, "quality_of_life_impact")]
        ELSE [air_quality |-> county_row[1].air_quality_impact,
              co2_base |-> county_row[1].co2_emission_kg,
              qol_impact |-> county_row[1].quality_of_life_impact]

\* a calculator whose house-price figure keeps the sign of the coefficient
ImpactMetrics_unsigned(county, waste_size) ==
    LET k == CountyCoefficients(county)
        multiplier == WASTE_SIZE_MULTIPLIERS[waste_size]
    IN  [multiplier |-> multiplier,
         co2_emissions |-> RMul(k.co2_base, multiplier),
         waste_volume_tonnes |-> RMul(Rat(5, 100), multiplier),
         crime_change |-> RMul(RMul(k.qol_impact, Rat(150, 10)), multiplier),
         house_price_impact |-> RMul(RMul(k.qol_impact, Rat(45, 10)), multiplier),
         deprivation_index |->
             RMin(Rat(100, 10), RAdd(Rat(50, 10), RMul(k.qol_impact, Rat(30, 10)))),
         recycling_rate |->
             RMax(Rat(100, 10), RSub(Rat(650, 10), RMul(k.qol_impact, Rat(500, 10))))]

\* lines 182-199: the unrounded metrics
ImpactMetrics(county, waste_size) ==
    LET k == CountyCoefficients(county)
        multiplier == WASTE_SIZE_MULTIPLIERS[waste_size]
    IN  [multiplier |-> multiplier,
         co2_emissions |-> RMul(k.co2_base, multiplier),
         waste_volume_tonnes |-> RMul(Rat(5, 100), multiplier),
         crime_change |-> RMul(RMul(k.qol_impact, Rat(150, 10)), multiplier),
         house_price_impact |-> RMul(RMul(RNeg(k.qol_impact), Rat(45, 10)), multiplier),
         deprivation_index |->
             RMin(Rat(100, 10), RAdd(Rat(50, 10), RMul(k.qol_impact, Rat(30, 10)))),
         recycling_rate |->
             RMax(Rat(100, 10), RSub(Rat(650, 10), RMul(k.qol_impact, Rat(500, 10))))]

----------------------------------------------------------------------------
(* External services.  A reply is what the remote call produced: ok = FALSE *)
(* when the call raised (no key, network error, reply without text);        *)
(* otherwise text is the reply as a sequence of fragments, each a label     *)
(* word, a label word in capitals, a word with a label inside it, a blank   *)
(* " ", an asterisk or other text.                                          *)

Err == [ok |-> FALSE, text |-> <<>>]

Txt(t) == [ok |-> TRUE, text |-> t]

\* str.lower() on one fragment
LowerFragment(f) ==
    CASE f = "SMALL_BAG"  -> "small_bag"
      [] f = "MEDIUM_BAG" -> "medium_bag"
      [] f = "LARGE_BAG"  -> "large_bag"
      [] f = "VAN"        -> "van"
      [] f = "GARDEN"     -> "garden"
      [] f = "HOUSEHOLD"  -> "household"
      [] OTHER            -> f

Lower(t) == [i \in 1..Len(t) |-> LowerFragment(t[i])]

\* label in fragment, for one fragment: the label itself, or a longer word
\* that has the label inside it
InFragment(label, fragment) ==
    \/ fragment = label
    \/ label = "van" /\ fragment = "caravan"
    \/ label = "garden" /\ fragment = "gardening"

\* label in classification
Occurs(label, classification) ==
    \E i \in 1..Len(classification) : InFragment(label, classification[i])

\* a search that goes along the reply and takes the first label it meets
FirstOccurring_by_position(valid, classification) ==
    LET at == CHOOSE i \in 1..Len(classification) :
                  /\ \E k \in 1..Len(valid) : InFragment(valid[k], classification[i])
                  /\ \A j \in 1..(i - 1), k \in 1..Len(valid) :
                         ~InFragment(valid[k], classification[j])
    IN  valid[CHOOSE k \in 1..Len(valid) : InFragment(valid[k], classification[at])]

\* the first label of valid, in list order, that occurs in classification
FirstOccurring(valid, classification) ==
    valid[CHOOSE i \in 1..Len(valid) :
            /\ Occurs(valid[i], classification)
            /\ \A j \in 1..(i - 1) : ~Occurs(valid[j], classification)]

valid_sizes == <<"small_bag", "medium_bag", "large_bag", "van">>

\* a classifier that hands back "unknown" where it finds no label
classify_waste_size_undefaulted(reply) ==
    IF ~reply.ok THEN "unknown"
    ELSE LET classification == Lower(Strip(reply.text))
         IN  IF \E i \in 1..Len(valid_sizes) : Occurs(valid_sizes[i], classification)
             THEN FirstOccurring(valid_sizes, classification)
             ELSE "unknown"

\* lines 13-80 of classify_waste_bag_size.py
classify_waste_size_with_gemini(reply) ==
    IF ~reply.ok THEN "medium_bag"
    ELSE LET classification == Lower(Strip(reply.text))
         IN  IF \E i \in 1..Len(valid_sizes) : classification = <<valid_sizes[i]>>
             THEN classification[1]
             ELSE IF \E i \in 1..Len(valid_sizes) : Occurs(valid_sizes[i], classification)
             THEN FirstOccurring(valid_sizes, classification)
             ELSE "medium_bag"

valid_types == <<"household", "construction", "garden", "hazardous",
                 "furniture", "electrical">>

\* a classifier whose default is a label outside the list
get_waste_type_general(reply) ==
    IF ~reply.ok THEN "general"
    ELSE LET classification == Lower(Strip(reply.text))
         IN  IF \E i \in 1..Len(valid_types) : Occurs(valid_types[i], classification)
             THEN FirstOccurring(valid_types, classification)
             ELSE "general"

\* lines 13-78 of get_waste_type.py
get_waste_type(reply) ==
    IF ~reply.ok THEN "household"
    ELSE LET classification == Lower(Strip(reply.text))
         IN  IF \E i \in 1..Len(valid_types) : classification = <<valid_types[i]>>
             THEN classification[1]
             ELSE IF \E i \in 1..Len(valid_types) : Occurs(valid_types[i], classification)
             THEN FirstOccurring(valid_types, classification)
             ELSE "household"

\* a template that names the severity bucket in place of the material
generate_summary_sized(county, waste_size, crime_change, house_price_impact, co2_emissions, waste_type, reply) ==
    IF reply.ok
    THEN LET notStar(f) == f # "*"
         IN  [kind |-> "generated", text |-> SelectSeq(Strip(reply.text), notStar),
              waste_type |-> "", county |-> "", house |-> 0, co2 |-> 0, crime |-> 0]
    ELSE [kind |-> "template", text |-> <<>>,
          waste_type |-> waste_size, county |-> county,
          house |-> Round(RAbs(house_price_impact), 1),
          co2 |-> Round(co2_emissions, 1),
          crime |-> Round(crime_change, 1)]

\* lines 71-90 of generate_summary.py: the cleaned reply, or the template
\* filled with its arguments (each number formatted with one decimal)
generate_summary(county, waste_size, crime_change, house_price_impact, co2_emissions, waste_type, reply) ==
    IF reply.ok
    THEN LET notStar(f) == f # "*"
         IN  [kind |-> "generated", text |-> SelectSeq(Strip(reply.text), notStar),
              waste_type |-> "", county |-> "", house |-> 0, co2 |-> 0, crime |-> 0]
    ELSE [kind |-> "template", text |-> <<>>,
          waste_type |-> waste_type, county |-> county,
          house |-> Round(RAbs(house_price_impact), 1),
          co2 |-> Round(co2_emissions, 1),
          crime |-> Round(crime_change, 1)]

\* the characters of a region name, as str holds them
Chars(name) ==
    CASE name = "Greater London" -> <<"G","r","e","a","t","e","r"," ","L","o","n","d","o","n">>
      [] name = "Greater Manchester" -> <<"G","r","e","a","t","e","r"," ","M","a","n","c","h","e","s","t","e","r">>
      [] name = "West Midlands" -> <<"W","e","s","t"," ","M","i","d","l","a","n","d","s">>
      [] name = "West Yorkshire" -> <<"W","e","s","t"," ","Y","o","r","k","s","h","i","r","e">>
      [] name = "Merseyside" -> <<"M","e","r","s","e","y","s","i","d","e">>
      [] name = "South Yorkshire" -> <<"S","o","u","t","h"," ","Y","o","r","k","s","h","i","r","e">>
      [] name = "Tyne and Wear" -> <<"T","y","n","e"," ","a","n","d"," ","W","e","a","r">>
      [] name = "Lancashire" -> <<"L","a","n","c","a","s","h","i","r","e">>
      [] name = "Kent" -> <<"K","e","n","t">>
      [] name = "Essex" -> <<"E","s","s","e","x">>
      [] name = "Hampshire" -> <<"H","a","m","p","s","h","i","r","e">>
      [] name = "Surrey" -> <<"S","u","r","r","e","y">>
      [] name = "Hertfordshire" -> <<"H","e","r","t","f","o","r","d","s","h","i","r","e">>
      [] name = "Berkshire" -> <<"B","e","r","k","s","h","i","r","e">>
      [] name = "Buckinghamshire" -> <<"B","u","c","k","i","n","g","h","a","m","s","h","i","r","e">>
      [] name = "Oxfordshire" -> <<"O","x","f","o","r","d","s","h","i","r","e">>
      [] name = "Gloucestershire" -> <<"G","l","o","u","c","e","s","t","e","r","s","h","i","r","e">>
      [] name = "Wiltshire" -> <<"W","i","l","t","s","h","i","r","e">>
      [] name = "Somerset" -> <<"S","o","m","e","r","s","e","t">>
      [] name = "Devon" -> <<"D","e","v","o","n">>
      [] name = "Cornwall" -> <<"C","o","r","n","w","a","l","l">>
      [] name = "Dorset" -> <<"D","o","r","s","e","t">>
      [] name = "East Sussex" -> <<"E","a","s","t"," ","S","u","s","s","e","x">>
      [] name = "West Sussex" -> <<"W","e","s","t"," ","S","u","s","s","e","x">>
      [] name = "Norfolk" -> <<"N","o","r","f","o","l","k">>
      [] name = "Suffolk" -> <<"S","u","f","f","o","l","k">>
      [] name = "Cambridgeshire" -> <<"C","a","m","b","r","i","d","g","e","s","h","i","r","e">>
      [] name = "Bedfordshire" -> <<"B","e","d","f","o","r","d","s","h","i","r","e">>
      [] name = "Northamptonshire" -> <<"N","o","r","t","h","a","m","p","t","o","n","s","h","i","r","e">>
      [] name = "Leicestershire" -> <<"L","e","i","c","e","s","t","e","r","s","h","i","r","e">>
      [] name = "Nottinghamshire" -> <<"N","o","t","t","i","n","g","h","a","m","s","h","i","r","e">>
      [] name = "Derbyshire" -> <<"D","e","r","b","y","s","h","i","r","e">>
      [] name = "Staffordshire" -> <<"S","t","a","f","f","o","r","d","s","h","i","r","e">>
      [] name = "Shropshire" -> <<"S","h","r","o","p","s","h","i","r","e">>
      [] name = "Herefordshire" -> <<"H","e","r","e","f","o","r","d","s","h","i","r","e">>
      [] name = "Worcestershire" -> <<"W","o","r","c","e","s","t","e","r","s","h","i","r","e">>
      [] name = "Warwickshire" -> <<"W","a","r","w","i","c","k","s","h","i","r","e">>
      [] name = "Cheshire" -> <<"C","h","e","s","h","i","r","e">>
      [] name = "Cumbria" -> <<"C","u","m","b","r","i","a">>
      [] name = "Durham" -> <<"D","u","r","h","a","m">>
      [] name = "Northumberland" -> <<"N","o","r","t","h","u","m","b","e","r","l","a","n","d">>
      [] name = "North Yorkshire" -> <<"N","o","r","t","h"," ","Y","o","r","k","s","h","i","r","e">>
      [] name = "East Riding of Yorkshire" -> <<"E","a","s","t"," ","R","i","d","i","n","g"," ","o","f"," ","Y","o","r","k","s","h","i","r","e">>
      [] name = "Lincolnshire" -> <<"L","i","n","c","o","l","n","s","h","i","r","e">>
      [] name = "Rutland" -> <<"R","u","t","l","a","n","d">>
      [] name = "Isle of Wight" -> <<"I","s","l","e"," ","o","f"," ","W","i","g","h","t">>

LowerChar(c) ==
    IF IsUpperLetter(c)
    THEN LowerLetters[CHOOSE i \in 1..26 : UpperLetters[i] = c]
    ELSE c

\* str.lower()
LowerChars(s) == [i \in 1..Len(s) |-> LowerChar(s[i])]

\* str.replace(old, ""): every non-overlapping occurrence, left to right
RECURSIVE Remove(_, _)
Remove(s, old) ==
    IF s = <<>> THEN <<>>
    ELSE IF StartsWith(s, old) THEN Remove(SubSeq(s, Len(old) + 1, Len(s)), old)
    ELSE <<s[1]>> \o Remove(Tail(s), old)

\* a slug that keeps the capitals of the name
CouncilSlug_cased(council_name) ==
    Remove(Remove(Chars(council_name), <<" ","c","o","u","n","c","i","l">>), <<" ">>)

\* line 126: council_name.lower().replace(" council", "").replace(" ", "")
CouncilSlug(council_name) ==
    Remove(Remove(LowerChars(Chars(council_name)),
                  <<" ","c","o","u","n","c","i","l">>), <<" ">>)

\* lines 121-140 of council_url.py
_get_fallback_result(council_name) ==
    LET council_slug == CouncilSlug(council_name)
    IN  [url |-> <<"https://www.", council_slug, ".gov.uk/report-fly-tipping">>,
         contact_number |-> <<"0300 123 4567">>,
         council_website |-> <<"https://www.", council_slug, ".gov.uk">>,
         confidence |-> "low"]

\* A JSON member of the lookup reply: <<"missing">> when the key is absent,
\* <<"null">> for null, <<"">> for the empty string, else the string
Missing == <<"missing">>

Null == <<"null">>

Empty == <<"">>

\* lines 92-118 of council_url.py.  reply.json is FALSE when json.loads raises
find_council_reporting_page(council_name, reply) ==
    IF ~reply.ok \/ ~reply.json THEN _get_fallback_result(council_name)
    ELSE IF reply.url \in {Missing, Null, Empty} THEN _get_fallback_result(council_name)
    ELSE LET dflt(v, d) == IF v = Missing THEN d ELSE v
             confidence == dflt(reply.confidence, <<"medium">>)
         IN  IF confidence \notin {<<"high">>, <<"medium">>, <<"low">>}
             THEN _get_fallback_result(council_name)
             ELSE [url |-> reply.url,
                   contact_number |-> dflt(reply.contact_number, Empty),
                   council_website |-> dflt(reply.council_website, Empty),
                   confidence |-> confidence[1]]

\* CouncilInfo declares reportingUrl and contactNumber as str: None is rejected
CouncilInfoValid(info) == info.council_website # Null /\ info.contact_number # Null

\* a response whose crime figure is left at zero when the narrative is the
\* template
BuildImpactResponse_by_narrative(county, m, summary, image_url, info) ==
    [crimeChange |-> IF summary.kind = "template" THEN 0 ELSE Round(m.crime_change, 1),
     summary |-> summary,
     imageUrl |-> image_url,
     deprivationIndex |-> Round(m.deprivation_index, 1),
     housePriceImpact |-> Round(m.house_price_impact, 1),
     environmentalImpact |->
         [co2Emissions |-> Round(m.co2_emissions, 1),
          wasteVolume |-> Round(m.waste_volume_tonnes, 2),
          recyclingRate |-> Round(m.recycling_rate, 1)],
     councilInfo |->
         [name |-> <<county, " Council">>,
          reportingUrl |-> info.council_website,
          contactNumber |-> info.contact_number,
          recommendations |->
              <<"report", "carriers", "recycling centre", "bulky waste",
                FloorDiv(m.multiplier[1] * 200, m.multiplier[2])>>]]

\* lines 210-238: the response model built from the locals of calculate_impact
BuildImpactResponse(county, m, summary, image_url, info) ==
    [crimeChange |-> Round(m.crime_change, 1),
     summary |-> summary,
     imageUrl |-> image_url,
     deprivationIndex |-> Round(m.deprivation_index, 1),
     housePriceImpact |-> Round(m.house_price_impact, 1),
     environmentalImpact |->
         [co2Emissions |-> Round(m.co2_emissions, 1),
          wasteVolume |-> Round(m.waste_volume_tonnes, 2),
          recyclingRate |-> Round(m.recycling_rate, 1)],
     councilInfo |->
         [name |-> <<county, " Council">>,
          reportingUrl |-> info.council_website,
          contactNumber |-> info.contact_number,
          recommendations |->
              <<"report", "carriers", "recycling centre", "bulky waste",
                FloorDiv(m.multiplier[1] * 200, m.multiplier[2])>>]]

----------------------------------------------------------------------------
(* Inputs of the task machine *)

TaskIds == 1..MaxTasks

Postcodes == { <<"n","e","1"," ","4","x","x">> }

Images == { "image" }

SizeReplies == { Err, Txt(<<"text", "VAN", " ">>) }

TypeReplies == { Err, Txt(<<"garden">>) }

SummaryReplies == { Err, Txt(<<"*", "story", "*">>) }

CouncilReply(ok, json, url, contact_number, council_website, confidence) ==
    [ok |-> ok, json |-> json, url |-> url, contact_number |-> contact_number,
     council_website |-> council_website, confidence |-> confidence]

CouncilReplies == {
    CouncilReply(FALSE, FALSE, Missing, Missing, Missing, Missing),
    CouncilReply(TRUE, TRUE, <<"https://council/report">>, <<"0161 000 0000">>,
                 <<"https://council">>, <<"high">>),
    CouncilReply(TRUE, TRUE, <<"https://council/report">>, Null, Null, <<"low">>) }

UploadOutcomes == { "stored", "raised" }

utcnow == "utcnow"

----------------------------------------------------------------------------
(* The task store and the event loop *)

NoCtx ==
    [postcode |-> None, image |-> None, county |-> None, waste_size |-> None,
     metrics |-> None, waste_type |-> None, summary |-> None, image_url |-> None,
     council |-> None, impact_result |-> None, exc |-> None]

Stages == {"severity", "material", "narrative", "upload", "contact"}

NoLog == [s \in Stages |-> "none"]

NoResponse ==
    [http |-> 0, status |-> "", result |-> None, error |-> None]

\* a generator that repeats an id
uuid4_reused(n) == 1

\* uuid.uuid4(): an id no earlier call returned
uuid4(n) == n + 1

\* a pipeline that awaits between the writes of lines 257 and 258
RunYields_between_writes(p) == p = "store_result"

\* whether the pipeline coroutine awaits after reaching position p: the body
\* of process_flytipping_analysis holds no await, every stage call is a
\* blocking call made on the event loop
RunYields(p) == FALSE

LoopFree == loop = 0

Init ==
    /\ task_results = <<>>
    /\ generated = 0
    /\ in_submit = {}
    /\ scheduled = {}
    /\ loop = 0
    /\ pc = [t \in TaskIds |-> "idle"]
    /\ ctx = [t \in TaskIds |-> NoCtx]
    /\ issued = {}
    /\ observed = [t \in TaskIds |-> NoResponse]
    /\ stage_log = [t \in TaskIds |-> NoLog]

----------------------------------------------------------------------------
(* POST /api/submit *)

\* lines 280-284: draw the id, then suspend reading the upload
SubmitBegin(postcode, image) ==
    /\ LoopFree
    /\ generated < MaxTasks
    /\ generated' = generated + 1
    /\ in_submit' = in_submit \cup
           {[task_id |-> uuid4(generated), postcode |-> postcode, image |-> image]}
    /\ UNCHANGED <<task_results, scheduled, loop, pc, ctx, issued, observed,
                   stage_log>>

NewRecord(postcode) ==
    [status |-> "pending", created_at |-> utcnow, postcode |-> postcode,
     result |-> None, error |-> None, metadata |-> None]

\* lines 286-305: insert the record, add the background task, answer
SubmitFinish(req) ==
    /\ LoopFree
    /\ req \in in_submit
    /\ in_submit' = in_submit \ {req}
    /\ task_results' = (req.task_id :> NewRecord(req.postcode)) @@ task_results
    /\ scheduled' = scheduled \cup {req}
    /\ observed' = [observed EXCEPT ![req.task_id] =
                        [http |-> 200, status |-> "pending",
                         result |-> None, error |-> None]]
    /\ issued' = issued \cup {req.task_id}
    /\ UNCHANGED <<generated, loop, pc, ctx, stage_log>>

----------------------------------------------------------------------------
(* GET /api/result/{task_id} *)

\* a lookup that ignores records still pending
TaskKnown_started(task_id) ==
    task_id \in DOMAIN task_results /\ task_results[task_id].status # "pending"

\* line 314
TaskKnown(task_id) == task_id \in DOMAIN task_results

\* the body of the answer for a record whose status was read
StatusResponse(task_data) ==
    LET status == task_data.status
    IN  IF status = "completed" /\ task_data.result = None
        THEN \* task_data["result"] raises KeyError
             [http |-> 500, status |-> status,
              result |-> None, error |-> None]
        ELSE [http |-> 200, status |-> status,
              result |-> IF status = "completed" THEN task_data.result ELSE None,
              error |-> IF status = "failed"
                        THEN (IF task_data.error = None
                              THEN Some("Unknown error occurred")
                              ELSE task_data.error)
                        ELSE None]

NotFound ==
    [http |-> 404, status |-> "", result |-> None, error |-> None]

\* a handler that marks the record it reads
get_analysis_result_marking(task_id) ==
    /\ LoopFree
    /\ observed' = [observed EXCEPT ![task_id] =
                        IF ~TaskKnown(task_id) THEN NotFound
                        ELSE StatusResponse(task_results[task_id])]
    /\ task_results' =
           IF TaskKnown(task_id)
           THEN [task_results EXCEPT ![task_id] = [@ EXCEPT !.metadata = Some("read")]]
           ELSE task_results
    /\ UNCHANGED <<generated, in_submit, scheduled, loop, pc, ctx, issued,
                   stage_log>>

\* lines 308-330
get_analysis_result(task_id) ==
    /\ LoopFree
    /\ observed' = [observed EXCEPT ![task_id] =
                        IF ~TaskKnown(task_id) THEN NotFound
                        ELSE StatusResponse(task_results[task_id])]
    /\ UNCHANGED <<task_results, generated, in_submit, scheduled, loop, pc, ctx,
                   issued, stage_log>>

----------------------------------------------------------------------------
(* The background task process_flytipping_analysis, statement by statement *)

\* the run of task t stands at position p and may take its next step
At(t, p) == pc[t] = p /\ loop \in {0, t}

\* move the run of t to position p; the loop is handed back at the end of the
\* coroutine and wherever it awaits
Goto(t, p) ==
    /\ pc' = [pc EXCEPT ![t] = p]
    /\ loop' = IF p = "done" \/ RunYields(p) THEN 0 ELSE t

\* a write that builds the record anew around the field it sets
SetField_rebuilt(t, field, value) ==
    task_results' = [task_results EXCEPT ![t] = [NewRecord(<<>>) EXCEPT ![field] = value]]

\* task_results[task_id][field] = value
SetField(t, field, value) ==
    task_results' = [task_results EXCEPT ![t] = [@ EXCEPT ![field] = value]]

SetLocal(t, name, value) == ctx' = [ctx EXCEPT ![t] = [@ EXCEPT ![name] = Some(value)]]

Log(t, stage, outcome) ==
    stage_log' = [stage_log EXCEPT ![t] = [@ EXCEPT ![stage] = outcome]]

CallOutcome(reply) == IF reply.ok THEN "ok" ELSE "failed"

\* a run that leaves the record as submit made it
StartStatus_unmarked == "pending"

\* the status line 245 writes
StartStatus == "processing"

\* a run that goes to the severity call without resolving the region
RunStart_unresolved(run) ==
    /\ LoopFree
    /\ run \in scheduled
    /\ TaskKnown(run.task_id)
    /\ scheduled' = scheduled \ {run}
    /\ SetField(run.task_id, "status", StartStatus)
    /\ ctx' = [ctx EXCEPT ![run.task_id] =
                  [NoCtx EXCEPT !.postcode = Some(run.postcode),
                                !.image = Some(run.image)]]
    /\ stage_log' = [stage_log EXCEPT ![run.task_id] = NoLog]
    /\ Goto(run.task_id, "waste_size")
    /\ UNCHANGED <<generated, in_submit, issued, observed>>

\* line 245: the scheduled task starts and marks its record
RunStart(run) ==
    /\ LoopFree
    /\ run \in scheduled
    /\ TaskKnown(run.task_id)
    /\ scheduled' = scheduled \ {run}
    /\ SetField(run.task_id, "status", StartStatus)
    /\ ctx' = [ctx EXCEPT ![run.task_id] =
                  [NoCtx EXCEPT !.postcode = Some(run.postcode),
                                !.image = Some(run.image)]]
    /\ stage_log' = [stage_log EXCEPT ![run.task_id] = NoLog]
    /\ Goto(run.task_id, "county")
    /\ UNCHANGED <<generated, in_submit, issued, observed>>

\* line 248
ResolveCounty(t) ==
    /\ At(t, "county")
    /\ SetLocal(t, "county", get_county_from_postcode(ctx[t].postcode[1]))
    /\ Goto(t, "waste_size")
    /\ UNCHANGED <<task_results, generated, in_submit, scheduled, issued,
                   observed, stage_log>>

\* line 251
ClassifySize(t, reply) ==
    /\ At(t, "waste_size")
    /\ SetLocal(t, "waste_size", classify_waste_size_with_gemini(reply))
    /\ Log(t, "severity", CallOutcome(reply))
    /\ Goto(t, "metrics")
    /\ UNCHANGED <<task_results, generated, in_submit, scheduled, issued,
                   observed>>

\* line 254, calculate_impact lines 169-199; a bucket that is no key of the
\* multiplier table raises KeyError at line 183, which line 265 catches
ComputeMetrics(t) ==
    /\ At(t, "metrics")
    /\ IF ctx[t].waste_size[1] \in DOMAIN WASTE_SIZE_MULTIPLIERS
       THEN /\ SetLocal(t, "metrics",
                        ImpactMetrics(ctx[t].county[1], ctx[t].waste_size[1]))
            /\ Goto(t, "waste_type")
       ELSE /\ SetLocal(t, "exc", "KeyError")
            /\ Goto(t, "except")
    /\ UNCHANGED <<task_results, generated, in_submit, scheduled, issued,
                   observed, stage_log>>

\* calculate_impact line 202
ClassifyType(t, reply) ==
    /\ At(t, "waste_type")
    /\ SetLocal(t, "waste_type", get_waste_type(reply))
    /\ Log(t, "material", CallOutcome(reply))
    /\ Goto(t, "summary")
    /\ UNCHANGED <<task_results, generated, in_submit, scheduled, issued,
                   observed>>

\* calculate_impact line 206
Summarise(t, reply) ==
    /\ At(t, "summary")
    /\ LET m == ctx[t].metrics[1]
       IN  SetLocal(t, "summary",
               generate_summary(ctx[t].county[1], ctx[t].waste_size[1],
                                m.crime_change, m.house_price_impact,
                                m.co2_emissions, ctx[t].waste_type[1], reply))
    /\ Log(t, "narrative", CallOutcome(reply))
    /\ Goto(t, "upload")
    /\ UNCHANGED <<task_results, generated, in_submit, scheduled, issued,
                   observed>>

\* calculate_impact line 208; upload_image_to_supabase lines 28-75 return the
\* public URL or print and re-raise.  The call stands in no try of
\* calculate_impact, so the handler of line 265 is where a raise arrives
UploadImage(t, outcome) ==
    /\ At(t, "upload")
    /\ IF outcome = "stored"
       THEN /\ SetLocal(t, "image_url", <<"public_url">>)
            /\ Log(t, "upload", "ok")
            /\ Goto(t, "council")
       ELSE /\ SetLocal(t, "exc", "upload error")
            /\ Log(t, "upload", "failed")
            /\ Goto(t, "except")
    /\ UNCHANGED <<task_results, generated, in_submit, scheduled, issued,
                   observed>>

\* calculate_impact line 219
FindCouncil(t, reply) ==
    /\ At(t, "council")
    /\ SetLocal(t, "council", find_council_reporting_page(ctx[t].county[1], reply))
    /\ Log(t, "contact", CallOutcome(reply))
    /\ Goto(t, "build")
    /\ UNCHANGED <<task_results, generated, in_submit, scheduled, issued,
                   observed>>

\* calculate_impact lines 221-238: pydantic validates the model it builds
BuildResponse(t) ==
    /\ At(t, "build")
    /\ IF CouncilInfoValid(ctx[t].council[1])
       THEN /\ SetLocal(t, "impact_result",
                   BuildImpactResponse(ctx[t].county[1], ctx[t].metrics[1],
                                       ctx[t].summary[1], ctx[t].image_url[1],
                                       ctx[t].council[1]))
            /\ Goto(t, "store_status")
       ELSE /\ SetLocal(t, "exc", "validation error")
            /\ Goto(t, "except")
    /\ UNCHANGED <<task_results, generated, in_submit, scheduled, issued,
                   observed, stage_log>>

\* line 257
StoreStatus(t) ==
    /\ At(t, "store_status")
    /\ SetField(t, "status", "completed")
    /\ Goto(t, "store_result")
    /\ UNCHANGED <<generated, in_submit, scheduled, ctx, issued, observed,
                   stage_log>>

\* line 258
StoreResult(t) ==
    /\ At(t, "store_result")
    /\ SetField(t, "result", ctx[t].impact_result)
    /\ Goto(t, "store_metadata")
    /\ UNCHANGED <<generated, in_submit, scheduled, ctx, issued, observed,
                   stage_log>>

\* lines 259-263; the coroutine returns
StoreMetadata(t) ==
    /\ At(t, "store_metadata")
    /\ SetField(t, "metadata",
                Some([county |-> ctx[t].county[1], waste_size |-> ctx[t].waste_size[1],
                      processed_at |-> utcnow]))
    /\ ctx' = [ctx EXCEPT ![t] = NoCtx]
    /\ Goto(t, "done")
    /\ UNCHANGED <<generated, in_submit, scheduled, issued, observed,
                   stage_log>>

\* a handler that logs the exception and returns, writing nothing
ExceptStatus_swallowed(t) ==
    /\ At(t, "except")
    /\ ctx' = [ctx EXCEPT ![t] = NoCtx]
    /\ Goto(t, "done")
    /\ UNCHANGED <<task_results, generated, in_submit, scheduled, issued,
                   observed, stage_log>>

\* line 266
ExceptStatus(t) ==
    /\ At(t, "except")
    /\ SetField(t, "status", "failed")
    /\ Goto(t, "except_error")
    /\ UNCHANGED <<generated, in_submit, scheduled, ctx, issued, observed,
                   stage_log>>

\* a handler that drops the exception text
ErrorText_dropped(exc) == "Unknown error occurred"

\* str(e)
ErrorText(exc) == exc

\* line 267; the coroutine returns
ExceptError(t) ==
    /\ At(t, "except_error")
    /\ SetField(t, "error", Some(ErrorText(ctx[t].exc[1])))
    /\ ctx' = [ctx EXCEPT ![t] = NoCtx]
    /\ Goto(t, "done")
    /\ UNCHANGED <<generated, in_submit, scheduled, issued, observed,
                   stage_log>>

----------------------------------------------------------------------------

Submit == \E postcode \in Postcodes, image \in Images : SubmitBegin(postcode, image)

SubmitReturn == \E req \in in_submit : SubmitFinish(req)

Read == \E task_id \in TaskIds : get_analysis_result(task_id)

Start == \E run \in scheduled : RunStart(run)

Severity == \E t \in TaskIds, reply \in SizeReplies : ClassifySize(t, reply)

Material == \E t \in TaskIds, reply \in TypeReplies : ClassifyType(t, reply)

Narrative == \E t \in TaskIds, reply \in SummaryReplies : Summarise(t, reply)

Upload == \E t \in TaskIds, outcome \in UploadOutcomes : UploadImage(t, outcome)

Contact == \E t \in TaskIds, reply \in CouncilReplies : FindCouncil(t, reply)

Local ==
    \E t \in TaskIds :
        \/ ResolveCounty(t)
        \/ ComputeMetrics(t)
        \/ BuildResponse(t)
        \/ StoreStatus(t)
        \/ StoreResult(t)
        \/ StoreMetadata(t)
        \/ ExceptStatus(t)
        \/ ExceptError(t)

Next ==
    \/ Submit
    \/ SubmitReturn
    \/ Read
    \/ Start
    \/ Severity
    \/ Material
    \/ Narrative
    \/ Upload
    \/ Contact
    \/ Local

Spec == Init /\ [][Next]_vars

\* the next step of the run of task t: its start, the return of the external
\* call it stands in, with a value or with an error, or its next statement
RunStep(t) ==
    \/ \E run \in scheduled : run.task_id = t /\ RunStart(run)
    \/ \E reply \in SizeReplies : ClassifySize(t, reply)
    \/ \E reply \in TypeReplies : ClassifyType(t, reply)
    \/ \E reply \in SummaryReplies : Summarise(t, reply)
    \/ \E outcome \in UploadOutcomes : UploadImage(t, outcome)
    \/ \E reply \in CouncilReplies : FindCouncil(t, reply)
    \/ ResolveCounty(t)
    \/ ComputeMetrics(t)
    \/ BuildResponse(t)
    \/ StoreStatus(t)
    \/ StoreResult(t)
    \/ StoreMetadata(t)
    \/ ExceptStatus(t)
    \/ ExceptError(t)

Positions ==
    {"idle", "county", "waste_size", "metrics", "waste_type", "summary", "upload",
     "council", "build", "store_status", "store_result", "store_metadata",
     "except", "except_error", "done"}

\* RunStep(t) can be taken: the run of t is scheduled and the loop is free, or
\* it stands inside the coroutine and nothing else holds the loop
CanStep(t) ==
    \/ LoopFree /\ TaskKnown(t) /\ \E run \in scheduled : run.task_id = t
    \/ pc[t] \notin {"idle", "done"} /\ loop \in {0, t}

\* what a step of RunStep(t) does to the positions: the run of t moves
Advance(t) ==
    /\ CanStep(t)
    /\ \E p \in Positions \ {pc[t]} : pc' = [pc EXCEPT ![t] = p]

\* the event loop runs every background task it was handed (line 294), every
\* external call returns, and a statement that can run does run
Fairness == \A t \in TaskIds : WF_pc(Advance(t))

LiveSpec == Init /\ [][Next]_vars /\ Fairness

----------------------------------------------------------------------------
(* One run of the pipeline over the replies the external services can give *)

MaxReplyLen == 2

SeqsUpTo(S, n) == UNION { [1..k -> S] : k \in 0..n }

RepliesOver(fragments) ==
    {Err} \cup { Txt(text) : text \in SeqsUpTo(fragments, MaxReplyLen) }

SizeFragments ==
    {"small_bag", "medium_bag", "large_bag", "van", "VAN", "caravan", " ", "text"}

TypeFragments ==
    {"garden", "GARDEN", "gardening", "furniture", "household", " ", "text"}

SummaryFragments == {"*", "story", " "}

JsonMembers == {Missing, Null, Empty, <<"text">>}

\* the lookup raised, answered text that is no JSON, or answered an object
AllCouncilReplies ==
    { CouncilReply(FALSE, FALSE, Missing, Missing, Missing, Missing),
      CouncilReply(TRUE, FALSE, Missing, Missing, Missing, Missing) }
    \cup { CouncilReply(TRUE, TRUE, url, contact_number, council_website, confidence) :
             url \in JsonMembers,
             contact_number \in {Missing, Null, <<"text">>},
             council_website \in {Null, <<"text">>},
             confidence \in {Missing, <<"certain">>} }

StagePostcodes ==
    { <<"n","e","1"," ","4","x","x">>,
      <<"S","W","1","A"," ","1","A","A">>,
      <<"c","m","1">>,
      <<"g","u","1">>,
      <<"h","u","1">> }

\* the state submit leaves: one record pending, its task scheduled
Submitted(postcode) ==
    /\ task_results = (1 :> NewRecord(postcode))
    /\ generated = 1
    /\ in_submit = {}
    /\ scheduled = {[task_id |-> 1, postcode |-> postcode, image |-> "image"]}
    /\ loop = 0
    /\ pc = [t \in TaskIds |-> "idle"]
    /\ ctx = [t \in TaskIds |-> NoCtx]
    /\ issued = {1}
    /\ observed = [t \in TaskIds |->
                     IF t = 1 THEN [http |-> 200, status |-> "pending",
                                    result |-> None, error |-> None]
                     ELSE NoResponse]
    /\ stage_log = [t \in TaskIds |-> NoLog]

StageInit == \E postcode \in StagePostcodes : Submitted(postcode)

AnySeverity ==
    \E t \in TaskIds, reply \in RepliesOver(SizeFragments) : ClassifySize(t, reply)

AnyMaterial ==
    \E t \in TaskIds, reply \in RepliesOver(TypeFragments) : ClassifyType(t, reply)

AnyNarrative ==
    \E t \in TaskIds, reply \in RepliesOver(SummaryFragments) : Summarise(t, reply)

AnyContact == \E t \in TaskIds, reply \in AllCouncilReplies : FindCouncil(t, reply)

StageNext ==
    \/ Start
    \/ AnySeverity
    \/ AnyMaterial
    \/ AnyNarrative
    \/ Upload
    \/ AnyContact
    \/ Local

StageSpec == StageInit /\ [][StageNext]_vars

----------------------------------------------------------------------------
(* The resolver applied to every short postcode over a small alphabet *)

MaxLen == 3

PostcodeChars == {"S", "W", "E", "N", "L", "P", "O", "Z", "s", "n", "1", " "}

ResolverPostcodes ==
    SeqsUpTo(PostcodeChars, MaxLen)
    \cup { <<"S","W","1","A"," ","1","A","A">>, <<"S","W","1","A","1","A","A">> }

ResolverInit == \E postcode \in ResolverPostcodes : Submitted(postcode)

Resolve == \E t \in TaskIds : ResolveCounty(t)

ResolverNext ==
    \/ Start
    \/ Resolve

ResolverSpec == ResolverInit /\ [][ResolverNext]_vars

----------------------------------------------------------------------------
(* Properties *)

Terminal == {"completed", "failed"}

Stored == DOMAIN task_results

Finished(t) == t \in Stored /\ pc[t] = "done"

\* every member of the response model carries a value
Populated(r) ==
    /\ r.summary.kind \in {"generated", "template"}
    /\ r.imageUrl # None
    /\ r.councilInfo.reportingUrl \notin {None, Null}
    /\ r.councilInfo.contactNumber \notin {None, Null}
    /\ Len(r.councilInfo.recommendations) = 5

\* C1: if every external call of a task's run fails, the finished task is
\* completed, never failed, and its stored result is fully populated.
C1_FallbackGuarantee ==
    \A t \in TaskIds :
        (Finished(t) /\ \A s \in Stages : stage_log[t][s] # "ok")
            => /\ task_results[t].status = "completed"
               /\ task_results[t].result # None
               /\ Populated(task_results[t].result[1])

\* C2: a record is created pending before any stage of its task has run; its
\* status then only moves pending -> processing -> completed or failed, and
\* it is processing before the first stage is called.
C2_StatusTransitions ==
    [][\A t \in TaskIds :
        /\ (t \notin Stored /\ t \in DOMAIN task_results')
               => /\ task_results'[t].status = "pending"
                  /\ stage_log'[t] = NoLog
                  /\ pc'[t] = "idle"
        /\ t \in Stored
               => /\ t \in DOMAIN task_results'
                  /\ \/ task_results'[t].status = task_results[t].status
                     \/ <<task_results[t].status, task_results'[t].status>> \in
                            { <<"pending", "processing">>,
                              <<"processing", "completed">>,
                              <<"processing", "failed">> }
                  /\ task_results'[t].status = "pending"
                         => (pc'[t] = "idle" /\ stage_log'[t] = NoLog)
      ]_vars

C2_Witness ==
    \E t, u \in Stored :
        /\ Finished(t) /\ task_results[t].status = "completed"
        /\ Finished(u) /\ task_results[u].status = "failed"

\* C3: once a read of an id has seen completed or failed, every later read of
\* that id sees a terminal status, and a terminal status in the store never
\* changes.
C3_MonotonicReads ==
    [][\A t \in TaskIds :
        /\ observed[t].status \in Terminal => observed'[t].status \in Terminal
        /\ (t \in Stored /\ task_results[t].status \in Terminal)
               => task_results'[t].status = task_results[t].status
      ]_vars

C3_Witness ==
    \E t \in Stored :
        /\ observed[t].status \in Terminal
        /\ \E u \in Stored : u # t /\ observed[u].status = "pending"
                                    /\ task_results[u].status \in Terminal

\* C4: in every state of the store a record holds a result iff its status is
\* completed and an error iff its status is failed.
C4_ResultIffCompleted ==
    \A t \in Stored :
        /\ task_results[t].result # None <=> task_results[t].status = "completed"
        /\ task_results[t].error # None <=> task_results[t].status = "failed"

\* C5: a read that answers completed finds the run finished, every stage
\* called and returned, and returns the fully assembled result.
C5_NoPartialCompleted ==
    [][\A t \in TaskIds :
        (get_analysis_result(t) /\ observed'[t].status = "completed")
            => /\ pc[t] = "done"
               /\ \A s \in Stages : stage_log[t][s] # "none"
               /\ observed'[t].http = 200
               /\ observed'[t].result # None
               /\ Populated(observed'[t].result[1])
               /\ task_results[t].metadata # None
      ]_vars

C5_Witness ==
    \E t \in TaskIds :
        observed[t].status = "completed" /\ observed[t].result # None

\* C6: once a record's status is completed or failed, no field of the record
\* is written again.
C6_TerminalFrozen ==
    [][\A t \in Stored :
        task_results[t].status \in Terminal
            => (t \in DOMAIN task_results' /\ task_results'[t] = task_results[t])
      ]_vars

\* C7: submit returns an id no earlier submit was given or returned, has
\* inserted a pending record for it, answers pending, and has run no stage.
C7_SubmitFresh ==
    [][\A req \in in_submit :
        SubmitFinish(req)
            => /\ req.task_id \notin issued
               /\ req.task_id \notin Stored
               /\ \A other \in in_submit \ {req} : other.task_id # req.task_id
               /\ task_results'[req.task_id] = NewRecord(req.postcode)
               /\ task_results'[req.task_id].status = "pending"
               /\ observed'[req.task_id].http = 200
               /\ observed'[req.task_id].status = "pending"
               /\ req \in scheduled'
               /\ pc[req.task_id] = "idle"
               /\ pc' = pc /\ ctx' = ctx /\ stage_log' = stage_log /\ loop' = 0
      ]_vars

C7_Witness ==
    /\ Cardinality(issued) >= 2
    /\ \E t \in issued :
           /\ task_results[t].status = "pending"
           /\ observed[t].status = "pending"
           /\ \E u \in issued : u # t /\ task_results[u].status \in Terminal

\* C8: a read answers 404 exactly when the id was not returned by submit, and
\* for an issued id answers 200 with the record's current status.
C8_NotFoundIffUnissued ==
    [][\A t \in TaskIds :
        get_analysis_result(t)
            => /\ observed'[t].http = 404 <=> t \notin issued
               /\ t \in issued
                     => /\ observed'[t].http = 200
                        /\ observed'[t].status = task_results[t].status
      ]_vars

C8_Witness ==
    \E t, u \in TaskIds :
        /\ t \notin issued /\ observed[t].http = 404
        /\ u \in issued /\ observed[u].http = 200
        /\ observed[u].status \in Terminal

\* C9: an exception raised in a run is taken to the handler; when the handler
\* has run the record is failed, its error is the exception's text and it has
\* no result; a read of a failed record returns that error and no result.
C9_FailedOnException ==
    [][\A t \in TaskIds :
        /\ (ctx[t].exc = None /\ ctx'[t].exc # None) => pc'[t] = "except"
        /\ (pc[t] = "except_error" /\ pc'[t] = "done")
               => /\ ctx[t].exc # None
                  /\ task_results'[t].status = "failed"
                  /\ task_results'[t].error = ctx[t].exc
                  /\ task_results'[t].result = None
                  /\ task_results'[t].metadata = None
        /\ (get_analysis_result(t) /\ t \in Stored
              /\ task_results[t].status = "failed")
               => /\ task_results[t].error \in
                         {Some("upload error"), Some("validation error")}
                  /\ observed'[t].status = "failed"
                  /\ observed'[t].error = task_results[t].error
                  /\ observed'[t].result = None
      ]_vars

C9_Witness ==
    \E t \in Stored :
        /\ Finished(t) /\ task_results[t].status = "failed"
        /\ observed[t].status = "failed"
        /\ observed[t].error = Some("validation error")

\* C10: when the image upload fails the run is not aborted: the finished task
\* is completed and its result carries an empty image reference.
C10_UploadFailureCompletes ==
    \A t \in TaskIds :
        (Finished(t) /\ stage_log[t]["upload"] = "failed")
            => /\ task_results[t].status = "completed"
               /\ task_results[t].result # None
               /\ task_results[t].result[1].imageUrl \in {None, Empty}

\* C11: no outcome of the severity, material, narrative or contact stage
\* reaches the terminal status: whatever those stages returned (an error, free
\* text, a contact reply whose contact_number or council_website is null), a
\* finished task whose image was stored is completed.
C11_NoStageOutcomePropagates ==
    \A t \in TaskIds :
        (Finished(t) /\ stage_log[t]["upload"] = "ok")
            => task_results[t].status = "completed"

SizeLabels == {"small_bag", "medium_bag", "large_bag", "van"}

TypeLabels == {"household", "construction", "garden", "hazardous", "furniture",
               "electrical"}

\* the labels of the set that a fragment spells, in either case, alone or
\* inside a longer word
Spelt(fragment, labels) ==
    LET f == LowerFragment(fragment)
    IN  { l \in labels : \/ f = l
                         \/ f = "caravan" /\ l = "van"
                         \/ f = "gardening" /\ l = "garden" }

\* no fragment of the reply spells a label of the set
NoLabel(reply, labels) ==
    \A i \in 1..Len(reply.text) : Spelt(reply.text[i], labels) = {}

\* C12: the severity classifier never raises: whatever the service did it
\* returns one of the four buckets, it returns medium_bag when the call failed
\* or the reply names no bucket, and the run goes on to the impact calculation.
C12_SeverityDefaultsToMedium ==
    [][\A t \in TaskIds, reply \in RepliesOver(SizeFragments) :
        ClassifySize(t, reply)
            => /\ ctx'[t].waste_size # None
               /\ ctx'[t].waste_size[1] \in SizeLabels
               /\ (~reply.ok \/ NoLabel(reply, SizeLabels))
                      => ctx'[t].waste_size = Some("medium_bag")
               /\ ctx'[t].exc = None
               /\ pc'[t] = "metrics"
      ]_vars

C12_Witness ==
    \E t \in TaskIds :
        /\ stage_log[t]["severity"] = "failed"
        /\ ctx[t].waste_size = Some("medium_bag")
        /\ ctx[t].metrics # None
        /\ ctx[t].metrics[1].multiplier = WASTE_SIZE_MULTIPLIERS["medium_bag"]

\* C13: the material classifier never raises: whatever the service did it
\* returns one of the six material labels, and it returns household when the
\* call failed or the reply names no label.
C13_MaterialDefaultsToHousehold ==
    [][\A t \in TaskIds, reply \in RepliesOver(TypeFragments) :
        ClassifyType(t, reply)
            => /\ ctx'[t].waste_type # None
               /\ ctx'[t].waste_type[1] \in TypeLabels
               /\ (~reply.ok \/ NoLabel(reply, TypeLabels))
                      => ctx'[t].waste_type = Some("household")
               /\ ctx'[t].exc = None
               /\ pc'[t] = "summary"
      ]_vars

C13_Witness ==
    \E t \in TaskIds :
        /\ stage_log[t]["material"] = "failed"
        /\ ctx[t].waste_type = Some("household")
        /\ ctx[t].summary # None

\* the lookup raised, its text was no JSON, or the object has no usable url
LookupFails(reply) ==
    ~reply.ok \/ ~reply.json \/ reply.url \in {Missing, Null, Empty}

\* the letters of the name in lower case, blanks left out
SlugOf(name) ==
    LET notBlank(c) == c # " "
    IN  SelectSeq(LowerChars(Chars(name)), notBlank)

\* C14: when the contact lookup fails (the service raises, its reply is no
\* valid JSON, or the url is missing, null or empty) the lookup does not raise:
\* it returns the fallback, marked low confidence, with the generic phone
\* number and a URL built from the region name lower-cased with its blanks
\* removed.
C14_ContactFallback ==
    [][\A t \in TaskIds :
        (pc[t] = "council" /\ pc'[t] # "council")
            => LET slug == SlugOf(ctx[t].county[1])
                   info == ctx'[t].council[1]
               IN  /\ pc'[t] = "build"
                   /\ ctx'[t].exc = None
                   /\ ctx'[t].council # None
                   /\ \A i \in 1..Len(slug) : slug[i] # " " /\ ~IsUpperLetter(slug[i])
                   /\ \A reply \in AllCouncilReplies :
                          (LookupFails(reply) /\ FindCouncil(t, reply))
                              => /\ info.confidence = "low"
                                 /\ info.contact_number = <<"0300 123 4567">>
                                 /\ info.url = <<"https://www.", slug,
                                                 ".gov.uk/report-fly-tipping">>
                                 /\ info.council_website =
                                        <<"https://www.", slug, ".gov.uk">>
      ]_vars

C14_Witness ==
    \E t \in TaskIds :
        /\ stage_log[t]["contact"] = "failed"
        /\ ctx[t].county = Some("East Riding of Yorkshire")
        /\ ctx[t].council # None
        /\ ctx[t].council[1].confidence = "low"
        /\ ctx[t].council[1].url[2] =
               <<"e","a","s","t","r","i","d","i","n","g","o","f",
                 "y","o","r","k","s","h","i","r","e">>

\* C15: when the narrative service fails, generate_summary does not raise: it
\* returns the template filled with the region, the material label and the
\* house-price, CO2 and crime figures (one decimal each, the house-price figure
\* without its sign), and with nothing else: the same five inputs give the
\* same text whatever the severity bucket passed along with them.
C15_SummaryTemplate ==
    [][\A t \in TaskIds :
        Summarise(t, Err)
            => LET m == ctx[t].metrics[1]
                   text == ctx'[t].summary[1]
               IN  /\ ctx'[t].summary # None
                   /\ text.kind = "template"
                   /\ text.county = ctx[t].county[1]
                   /\ text.waste_type = ctx[t].waste_type[1]
                   /\ text.house = Round(RAbs(m.house_price_impact), 1)
                   /\ text.house >= 0
                   /\ text.co2 = Round(m.co2_emissions, 1)
                   /\ text.crime = Round(m.crime_change, 1)
                   /\ \A size \in SizeLabels :
                          generate_summary(ctx[t].county[1], size, m.crime_change,
                                           m.house_price_impact, m.co2_emissions,
                                           ctx[t].waste_type[1], Err) = text
                   /\ ctx'[t].exc = None
                   /\ pc'[t] = "upload"
      ]_vars

C15_Witness ==
    \E t \in TaskIds :
        /\ stage_log[t]["narrative"] = "failed"
        /\ ctx[t].summary # None
        /\ ctx[t].summary[1].kind = "template"
        /\ ctx[t].summary[1].house > 0
        /\ Round(ctx[t].metrics[1].house_price_impact, 1) < 0
        /\ ctx[t].waste_type = Some("garden")
        /\ ctx[t].waste_size = Some("van")

\* the regions the postcode table maps to
Regions ==
    { "Greater London", "Greater Manchester", "West Midlands",
      "West Yorkshire", "Merseyside", "South Yorkshire", "Northumberland",
      "Lancashire", "Kent", "Essex", "Hampshire", "Surrey", "Hertfordshire",
      "Berkshire", "Buckinghamshire", "Oxfordshire", "Gloucestershire",
      "Wiltshire", "Somerset", "Devon", "Cornwall", "Dorset", "East Sussex",
      "Isle of Wight", "Norfolk", "Suffolk", "Cambridgeshire",
      "Bedfordshire", "Northamptonshire", "Rutland", "Nottinghamshire",
      "Derbyshire", "Staffordshire", "Shropshire", "Herefordshire",
      "Worcestershire", "Warwickshire", "Cheshire", "Cumbria", "Durham",
      "North Yorkshire", "East Riding of Yorkshire", "Lincolnshire" }

\* the run of t has resolved the postcode it was submitted with
Resolved(t) == ctx[t].postcode # None /\ ctx[t].county # None

IsPrefix(k, s) == Len(k) <= Len(s) /\ \A i \in 1..Len(k) : s[i] = k[i]

\* the postcode in capitals without the blanks around it, up to its first blank
OutwardOf(postcode) == FirstPart(Upper(Strip(postcode)))

KeySet == { POSTCODE_TO_COUNTY_keys[i] : i \in 1..Len(POSTCODE_TO_COUNTY_keys) }

\* the keys that are a prefix of the outward code or of its leading letters
MatchingKeys(postcode) ==
    { k \in KeySet : \/ IsPrefix(k, OutwardOf(postcode))
                     \/ IsPrefix(k, LeadingLetters(OutwardOf(postcode))) }

Longest(keys) == { k \in keys : \A j \in keys : Len(j) <= Len(k) }

\* C17: when several keys match, the longest wins: the resolver returns the
\* region of the longest key that is a prefix of the outward code or of its
\* leading letters; that key is unique, so postcodes with the same longest
\* matching key resolve to the same region.
C17_LongestKeyWins ==
    \A t \in TaskIds :
        (Resolved(t) /\ MatchingKeys(ctx[t].postcode[1]) # {})
            => LET best == Longest(MatchingKeys(ctx[t].postcode[1]))
               IN  /\ Cardinality(best) = 1
                   /\ \A k \in best : ctx[t].county[1] = POSTCODE_TO_COUNTY(k)

C17_Witness ==
    \E t \in TaskIds :
        /\ Resolved(t)
        /\ ctx[t].postcode = Some(<<"n", "E", "1">>)
        /\ MatchingKeys(ctx[t].postcode[1]) = { <<"N">>, <<"N", "E">> }
        /\ ctx[t].county = Some("Northumberland")

AllDigits(postcode) ==
    postcode # <<>> /\ \A i \in 1..Len(postcode) : postcode[i] = "1"

NoKeyStarts(postcode) == \A k \in KeySet : ~IsPrefix(k, OutwardOf(postcode))

\* C18: 'SW1A 1AA' resolves to Greater London through the key SW; the empty
\* string, a string of digits, and any postcode whose outward code starts with
\* no key resolve to the default region, Greater London.
C18_Scenarios ==
    \A t \in TaskIds :
        Resolved(t)
            => LET postcode == ctx[t].postcode[1]
               IN  /\ postcode = <<"S","W","1","A"," ","1","A","A">>
                          => /\ ctx[t].county = Some("Greater London")
                             /\ Longest(MatchingKeys(postcode)) = { <<"S","W">> }
                   /\ (postcode = <<>> \/ AllDigits(postcode) \/ NoKeyStarts(postcode))
                          => ctx[t].county = Some("Greater London")

C18_Witness ==
    \E t \in TaskIds :
        /\ Resolved(t)
        /\ ctx[t].postcode = Some(<<"S","W","1","A"," ","1","A","A">>)
        /\ ctx[t].county = Some("Greater London")

NoBlanks(s) ==
    LET notBlank(c) == ~IsSpace(c)
    IN  SelectSeq(s, notBlank)

\* the resolver gives region for the postcode in lower case, in capitals, and
\* with a blank added before it, after it and on both sides
SameUnderCaseAndPadding(postcode, region) ==
    /\ get_county_from_postcode(LowerChars(postcode)) = region
    /\ get_county_from_postcode(Upper(postcode)) = region
    /\ get_county_from_postcode(<<" ">> \o postcode) = region
    /\ get_county_from_postcode(postcode \o <<" ">>) = region
    /\ get_county_from_postcode(<<" ">> \o postcode \o <<" ">>) = region

\* taking the blanks out joins no letter to the letters the part before the
\* first blank starts with
BlankKeepsLetters(postcode) ==
    LeadingLetters(Upper(NoBlanks(postcode))) = LeadingLetters(OutwardOf(postcode))

\* C19, as the claim states it: a postcode resolves to the same region in any
\* case, with blanks added around it, and with its internal blanks removed.
C19_Normalisation ==
    \A t \in TaskIds :
        Resolved(t)
            => LET postcode == ctx[t].postcode[1]
                   region == ctx[t].county[1]
               IN  /\ SameUnderCaseAndPadding(postcode, region)
                   /\ get_county_from_postcode(NoBlanks(postcode)) = region

\* C19, amended: a postcode resolves to the same region in any case and with
\* blanks added around it; it resolves to the same region with its internal
\* blanks removed provided that joins no further letter to its leading
\* letters, which holds whenever the part before the blank holds a digit or
\* the part after it starts with one.
C19_NormalisationAmended ==
    \A t \in TaskIds :
        Resolved(t)
            => LET postcode == ctx[t].postcode[1]
                   region == ctx[t].county[1]
               IN  /\ SameUnderCaseAndPadding(postcode, region)
                   /\ BlankKeepsLetters(postcode)
                          => get_county_from_postcode(NoBlanks(postcode)) = region

C19_Witness ==
    \E t \in TaskIds :
        /\ Resolved(t)
        /\ ctx[t].postcode = Some(<<"s", " ", "1">>)
        /\ BlankKeepsLetters(ctx[t].postcode[1])
        /\ ctx[t].county = Some("South Yorkshire")
        /\ get_county_from_postcode(<<"S", "1">>) = "South Yorkshire"

\* C20: whatever the region's quality-of-life coefficient (ordinary, negative,
\* very large) and whatever the severity bucket, the computed deprivation
\* index lies in [0, 10] and the recycling rate is at least 10, in the metrics
\* and in the rounded figures of the response.
C20_Clamps ==
    \A t \in TaskIds :
        /\ ctx[t].metrics # None
               => LET m == ctx[t].metrics[1]
                  IN  /\ RLeq(Rat(0, 1), m.deprivation_index)
                      /\ RLeq(m.deprivation_index, Rat(10, 1))
                      /\ RLeq(Rat(10, 1), m.recycling_rate)
        /\ ctx[t].impact_result # None
               => LET r == ctx[t].impact_result[1]
                  IN  /\ r.deprivationIndex >= 0
                      /\ r.deprivationIndex <= 100
                      /\ r.environmentalImpact.recyclingRate >= 100

\* the task finished completed: its result and metadata are in the store
Completed(t) ==
    /\ Finished(t)
    /\ task_results[t].status = "completed"
    /\ task_results[t].result # None
    /\ task_results[t].metadata # None

\* n/d as a count of tenths (places = 1) or hundredths (places = 2)
Figure(n, d, places) == Round(<<n, d>>, places)

\* C21: the stored figures are the formulas of the calculator applied to the
\* region's coefficients q (quality of life) and c (CO2 baseline) and the
\* bucket's multiplier m: crimeChange = q*15*m, housePriceImpact = -q*4.5*m,
\* co2Emissions = c*m, wasteVolume = 0.05*m, deprivationIndex = min(10, 5+3q),
\* recyclingRate = max(10, 65-50q), to one decimal (volume to two); bucket
\* large with q = 0.4 gives 30.0, -9.0, 6.2 and 45.0.
C21_CalculatorFormulas ==
    \A t \in TaskIds :
        Completed(t)
            => LET r == task_results[t].result[1]
                   region == task_results[t].metadata[1].county
                   bucket == task_results[t].metadata[1].waste_size
                   k == CountyCoefficients(region)
                   qn == k.qol_impact[1]
                   qd == k.qol_impact[2]
                   cn == k.co2_base[1]
                   cd == k.co2_base[2]
                   mn == WASTE_SIZE_MULTIPLIERS[bucket][1]
                   md == WASTE_SIZE_MULTIPLIERS[bucket][2]
               IN  /\ r.crimeChange = Figure(qn * 15 * mn, qd * md, 1)
                   /\ r.housePriceImpact = Figure(-(qn * 45 * mn), qd * 10 * md, 1)
                   /\ r.environmentalImpact.co2Emissions = Figure(cn * mn, cd * md, 1)
                   /\ r.environmentalImpact.wasteVolume = Figure(5 * mn, 100 * md, 2)
                   /\ r.deprivationIndex =
                          (IF 5 * qd + 3 * qn >= 10 * qd THEN 100
                           ELSE Figure(5 * qd + 3 * qn, qd, 1))
                   /\ r.environmentalImpact.recyclingRate =
                          (IF 65 * qd - 50 * qn <= 10 * qd THEN 100
                           ELSE Figure(65 * qd - 50 * qn, qd, 1))
                   /\ (region = "Greater London" /\ bucket = "large_bag")
                          => /\ k.qol_impact = <<2, 5>>
                             /\ r.crimeChange = 300
                             /\ r.housePriceImpact = -90
                             /\ r.deprivationIndex = 62
                             /\ r.environmentalImpact.recyclingRate = 450

C21_Witness ==
    \E t \in TaskIds :
        /\ Completed(t)
        /\ task_results[t].metadata[1].county = "Greater London"
        /\ task_results[t].metadata[1].waste_size = "large_bag"
        /\ task_results[t].result[1].crimeChange = 300
        /\ task_results[t].result[1].environmentalImpact.wasteVolume = 25

\* the rows of the coefficient table that are about the region
RowsOf(region) == { i \in 1..Len(county_data) : county_data[i].county = region }

\* C22: when the region has no row in the coefficient table the calculator
\* does not fail: it computes the metrics from the arithmetic mean of each
\* coefficient over all rows; when the region has a row it computes them from
\* that row.
C22_MissingRegionMean ==
    [][\A t \in TaskIds :
        (pc[t] = "metrics" /\ pc'[t] # "metrics")
            => LET region == ctx[t].county[1]
                   multiplier == WASTE_SIZE_MULTIPLIERS[ctx[t].waste_size[1]]
                   m == ctx'[t].metrics[1]
                   co2 == IF RowsOf(region) = {}
                          THEN ColumnMean(county_data, "co2_emission_kg")
                          ELSE county_data[CHOOSE i \in RowsOf(region) : TRUE].co2_emission_kg
                   qol == IF RowsOf(region) = {}
                          THEN ColumnMean(county_data, "quality_of_life_impact")
                          ELSE county_data[CHOOSE i \in RowsOf(region) : TRUE].quality_of_life_impact
               IN  /\ pc'[t] = "waste_type"
                   /\ ctx'[t].exc = None
                   /\ ctx'[t].metrics # None
                   /\ Cardinality(RowsOf(region)) <= 1
                   /\ m.co2_emissions = RMul(co2, multiplier)
                   /\ m.crime_change = RMul(RMul(qol, Rat(15, 1)), multiplier)
                   /\ m.house_price_impact = RNeg(RMul(RMul(qol, Rat(9, 2)), multiplier))
      ]_vars

C22_Witness ==
    \E t \in TaskIds :
        /\ ctx[t].county = Some("Northumberland")
        /\ RowsOf("Northumberland") = {}
        /\ ctx[t].waste_size = Some("medium_bag")
        /\ ctx[t].metrics # None
        /\ ctx[t].metrics[1].co2_emissions = <<455, 16>>
        /\ ctx[t].metrics[1].crime_change = <<2145, 8>>

\* the six numeric metrics of a result
NumericMetrics(r) ==
    <<r.crimeChange, r.deprivationIndex, r.housePriceImpact,
      r.environmentalImpact.co2Emissions, r.environmentalImpact.wasteVolume,
      r.environmentalImpact.recyclingRate>>

\* C23: two calculations for the same region and severity bucket give the
\* same six numeric metrics, whatever the material, narrative, upload and
\* contact stages of the two runs returned.
C23_CalculatorDeterministic ==
    \A t, u \in TaskIds :
        (Completed(t) /\ Completed(u)
           /\ task_results[t].metadata[1].county = task_results[u].metadata[1].county
           /\ task_results[t].metadata[1].waste_size
                  = task_results[u].metadata[1].waste_size)
            => NumericMetrics(task_results[t].result[1])
                   = NumericMetrics(task_results[u].result[1])

C23_Witness ==
    \E t, u \in TaskIds :
        /\ t # u /\ Completed(t) /\ Completed(u)
        /\ task_results[t].metadata[1] = task_results[u].metadata[1]
        /\ stage_log[t]["narrative"] = "failed" /\ stage_log[u]["narrative"] = "ok"
        /\ stage_log[t]["material"] = "failed" /\ stage_log[u]["material"] = "ok"
        /\ stage_log[t]["contact"] = "failed" /\ stage_log[u]["contact"] = "ok"
        /\ task_results[t].result # task_results[u].result
        /\ NumericMetrics(task_results[t].result[1])
               = NumericMetrics(task_results[u].result[1])

\* the narrative the call of Summarise would return had the material stage
\* returned label
SummaryWith(t, label, reply) ==
    LET m == ctx[t].metrics[1]
    IN  generate_summary(ctx[t].county[1], ctx[t].waste_size[1], m.crime_change,
                         m.house_price_impact, m.co2_emissions, label, reply)

\* the material stage reads its own reply only and leaves the other outputs
MaterialStandsAlone(t) ==
    (pc[t] = "waste_type" /\ pc'[t] # "waste_type")
        => /\ ctx'[t].waste_type # None
           /\ ctx'[t].waste_type[1] \in TypeLabels
           /\ ctx'[t].summary = ctx[t].summary
           /\ ctx'[t].council = ctx[t].council

\* the contact record is made of the region and of the reply of the lookup,
\* and the lookup leaves the other outputs
ContactStandsAlone(t) ==
    (pc[t] = "council" /\ pc'[t] # "council")
        => LET info == ctx'[t].council[1]
               slug == SlugOf(ctx[t].county[1])
           IN  /\ ctx'[t].council # None
               /\ info.url \in { <<"https://www.", slug, ".gov.uk/report-fly-tipping">>,
                                 <<"text">> }
               /\ info.contact_number \in { <<"0300 123 4567">>, Empty, Null, <<"text">> }
               /\ info.council_website \in { <<"https://www.", slug, ".gov.uk">>,
                                             Null, <<"text">> }
               /\ ctx'[t].waste_type = ctx[t].waste_type
               /\ ctx'[t].summary = ctx[t].summary

\* C24, as the claim states it: none of the material, narrative and contact
\* stages takes the output of another as input; in particular the narrative
\* is the same whichever label the material stage returned.
C24_StagesIndependent ==
    [][\A t \in TaskIds :
        /\ MaterialStandsAlone(t)
        /\ ContactStandsAlone(t)
        /\ \A reply \in RepliesOver(SummaryFragments) :
               Summarise(t, reply)
                   => \A label \in TypeLabels :
                          SummaryWith(t, label, reply) = ctx'[t].summary[1]
      ]_vars

\* C24, amended: the material stage and the contact lookup take no output of
\* another step-4 stage as input; the narrative stage is called with the label
\* the material stage has returned, which its template names, and with no
\* output of the contact lookup.
C24_NarrativeNeedsMaterial ==
    [][\A t \in TaskIds :
        /\ MaterialStandsAlone(t)
        /\ ContactStandsAlone(t)
        /\ \A reply \in RepliesOver(SummaryFragments) :
               Summarise(t, reply)
                   => /\ ctx[t].waste_type # None
                      /\ ctx[t].council = None
                      /\ ctx'[t].summary[1] = SummaryWith(t, ctx[t].waste_type[1], reply)
                      /\ ~reply.ok => ctx'[t].summary[1].waste_type = ctx[t].waste_type[1]
      ]_vars

C24_Witness ==
    \E t \in TaskIds :
        /\ stage_log[t]["material"] = "ok"
        /\ stage_log[t]["narrative"] = "failed"
        /\ stage_log[t]["contact"] = "ok"
        /\ ctx[t].waste_type = Some("furniture")
        /\ ctx[t].summary # None
        /\ ctx[t].summary[1].waste_type = "furniture"
        /\ ctx[t].council # None
        /\ ctx[t].council[1].url = <<"text">>

\* the positions at which a run is inside a call of an external service
ExternalCalls == {"waste_size", "waste_type", "summary", "upload", "council"}

\* C25: an external call in flight blocks nothing: while the run of one task
\* stands inside a call of an external service, the runs of the other tasks
\* can start and advance and submit and result requests are served.
C25_CallsBlockNothing ==
    \A t \in TaskIds :
        pc[t] \in ExternalCalls
            => /\ LoopFree
               /\ ENABLED Read
               /\ \A run \in scheduled : ENABLED RunStart(run)

\* the step creates the record of t or changes a field of it
Written(t) ==
    /\ t \in DOMAIN task_results'
    /\ t \notin Stored \/ task_results'[t] # task_results[t]

\* C26: a record is written by the submit that creates it and after that only
\* by the one background run of its own task: by the start of that run, which
\* happens once, or by a step of that run while it holds the loop.  No run
\* writes the record of another id and no second submit writes an id that is
\* in the store.
C26_SingleWriter ==
    [][\A t \in TaskIds :
        Written(t)
            => \/ /\ t \notin Stored
                  /\ \E req \in in_submit : req.task_id = t /\ SubmitFinish(req)
               \/ /\ t \in Stored
                  /\ pc[t] = "idle"
                  /\ \E run \in scheduled : run.task_id = t /\ RunStart(run)
               \/ /\ t \in Stored
                  /\ loop = t
                  /\ pc[t] \notin {"idle", "done"}
                  /\ pc'[t] # pc[t]
                  /\ \A u \in TaskIds \ {t} :
                         /\ pc'[u] = pc[u]
                         /\ u \in Stored => task_results'[u] = task_results[u]
      ]_vars

C26_Witness ==
    \E t, u \in Stored :
        /\ t # u
        /\ Finished(t) /\ task_results[t].status = "completed"
        /\ pc[u] = "store_result" /\ task_results[u].status = "completed"
        /\ task_results[u].result = None

\* C27: records are never deleted: the ids in the store only grow in number,
\* and a record once inserted stays in the store with the created_at and the
\* postcode it was inserted with.
C27_RecordsKept ==
    [][/\ Stored \subseteq DOMAIN task_results'
       /\ \A t \in Stored :
              /\ task_results'[t].created_at = task_results[t].created_at
              /\ task_results'[t].postcode = task_results[t].postcode
              /\ task_results[t].postcode \in Postcodes
      ]_vars

C27_Witness ==
    /\ Cardinality(Stored) = MaxTasks
    /\ \A t \in Stored :
           /\ Finished(t)
           /\ task_results[t].postcode \in Postcodes
           /\ task_results[t].created_at = utcnow
    /\ \E t \in Stored : task_results[t].status = "failed"

\* C28: no stage has a timeout or a cancellation: while the run of a task is
\* inside a call of an external service its record is processing, and the only
\* step that can follow is the return of that call.  A call that never returns
\* therefore leaves the task processing in every later state.
C28_HungCallWedges ==
    [][\A t \in TaskIds :
        pc[t] \in ExternalCalls
            => /\ t \in Stored
               /\ task_results[t].status = "processing"
               /\ task_results[t].result = None
               /\ task_results[t].error = None
               /\ pc'[t] # pc[t]
               /\ task_results'[t].status = "processing"
      ]_vars

C28_Witness ==
    \E t \in Stored :
        /\ pc[t] = "council"
        /\ loop = t
        /\ task_results[t].status = "processing"
        /\ observed[t].status = "pending"
        /\ \E run \in scheduled : run.task_id # t

\* the run of t has the local name set
Has(t, name) == ctx[t][name] # None

\* C29: within one run the region is resolved first, then the severity is
\* classified, then the metrics are computed, then the material, narrative,
\* upload and contact calls are made, then the response is assembled: the
\* metrics are never computed before the severity bucket is known and the
\* narrative is only called with metrics already computed.
C29_StageOrder ==
    [][\A t \in TaskIds :
        /\ (~Has(t, "waste_size") /\ ctx'[t].waste_size # None)
               => /\ Has(t, "county")
                  /\ stage_log[t] = NoLog
        /\ (~Has(t, "metrics") /\ ctx'[t].metrics # None)
               => /\ Has(t, "county") /\ Has(t, "waste_size")
                  /\ stage_log[t]["severity"] # "none"
                  /\ \A s \in Stages \ {"severity"} : stage_log[t][s] = "none"
        /\ \A s \in Stages \ {"severity"} :
               (stage_log[t][s] = "none" /\ stage_log'[t][s] # "none")
                   => /\ Has(t, "metrics")
                      /\ ~Has(t, "impact_result")
        /\ (~Has(t, "summary") /\ ctx'[t].summary # None)
               => /\ Has(t, "metrics")
                  /\ ctx'[t].metrics = ctx[t].metrics
        /\ (~Has(t, "impact_result") /\ ctx'[t].impact_result # None)
               => /\ \A s \in Stages : stage_log[t][s] # "none"
                  /\ Has(t, "waste_type") /\ Has(t, "summary")
                  /\ Has(t, "image_url") /\ Has(t, "council")
      ]_vars

C29_Witness ==
    \E t \in TaskIds :
        /\ pc[t] = "store_status"
        /\ Has(t, "impact_result")
        /\ \A s \in Stages : stage_log[t][s] = "ok"
        /\ ctx[t].county = Some("Surrey")

\* the runs scheduled for t and not yet started
RunsWaiting(t) == { run \in scheduled : run.task_id = t }

\* the pipeline of t has started
Started(t) == pc[t] # "idle"

\* C30: each submit schedules exactly one background run, for the id it
\* created; a run starts only for an id submit returned, finds its record in
\* the store, and starts once: no task's pipeline runs twice.
C30_OneRunPerSubmit ==
    [][/\ \A t \in TaskIds :
              /\ Cardinality(RunsWaiting(t)) + (IF Started(t) THEN 1 ELSE 0)
                     = (IF t \in issued THEN 1 ELSE 0)
              /\ RunsWaiting(t) # {} => TaskKnown(t)
              /\ pc[t] = "done" => pc'[t] = "done"
       /\ \A req \in in_submit :
              SubmitFinish(req)
                  => /\ RunsWaiting(req.task_id) = {}
                     /\ ~Started(req.task_id)
                     /\ scheduled' = scheduled \cup {req}
                     /\ req.task_id \in DOMAIN task_results'
       /\ \A run \in scheduled :
              RunStart(run)
                  => /\ run.task_id \in issued
                     /\ TaskKnown(run.task_id)
                     /\ task_results[run.task_id].status = "pending"
                     /\ ~Started(run.task_id)
                     /\ scheduled' = scheduled \ {run}
                     /\ pc'[run.task_id] = "county"
      ]_vars

C30_Witness ==
    /\ issued = TaskIds
    /\ scheduled = {}
    /\ \A t \in TaskIds : Finished(t)
    /\ \A t \in TaskIds : task_results[t].status = "completed"

\* the reply as the classifiers read it: blanks at either end taken off
Trimmed(text) ==
    LET words == { i \in 1..Len(text) : text[i] # " " }
    IN  IF words = {} THEN <<>>
        ELSE SubSeq(text, CHOOSE a \in words : \A i \in words : a <= i,
                          CHOOSE b \in words : \A i \in words : i <= b)

SizeOrder == <<"small_bag", "medium_bag", "large_bag", "van">>

TypeOrder == <<"household", "construction", "garden", "hazardous", "furniture",
               "electrical">>

Listed(order) == { order[i] : i \in 1..Len(order) }

Rank(label, order) == CHOOSE i \in 1..Len(order) : order[i] = label

\* the labels that occur somewhere in the text
Found(text, order) == UNION { Spelt(text[i], Listed(order)) : i \in 1..Len(text) }

\* the label of found that comes first in the declared order
Earliest(found, order) ==
    CHOOSE l \in found : \A m \in found : Rank(l, order) <= Rank(m, order)

\* the trimmed, lower-cased text is one label and nothing else
ExactLabel(text, order) ==
    /\ Len(Trimmed(text)) = 1
    /\ LowerFragment(Trimmed(text)[1]) \in Listed(order)

\* what a classifier may return for a reply that came back with text
RecoveredFrom(result, text, order, default) ==
    /\ ExactLabel(text, order) => result = LowerFragment(Trimmed(text)[1])
    /\ (~ExactLabel(text, order) /\ Found(text, order) # {})
           => result = Earliest(Found(text, order), order)
    /\ Found(text, order) = {} => result = default
    /\ Found(text, order) # {} => result \in Found(text, order)

\* C31: both classifiers recover a label from free text: a reply that is,
\* trimmed and lower-cased, exactly a known label gives that label; otherwise
\* the result is the first label of the declared list that occurs in the
\* reply; the default (medium_bag, household) comes back only when no label
\* of the list occurs in the reply.
C31_SubstringRecovery ==
    [][\A t \in TaskIds :
        /\ (pc[t] = "waste_size" /\ pc'[t] # "waste_size")
               => \A reply \in RepliesOver(SizeFragments) :
                      (reply.ok /\ ClassifySize(t, reply))
                          => RecoveredFrom(ctx'[t].waste_size[1], reply.text,
                                           SizeOrder, "medium_bag")
        /\ (pc[t] = "waste_type" /\ pc'[t] # "waste_type")
               => \A reply \in RepliesOver(TypeFragments) :
                      (reply.ok /\ ClassifyType(t, reply))
                          => RecoveredFrom(ctx'[t].waste_type[1], reply.text,
                                           TypeOrder, "household")
      ]_vars

\* a run that got a bucket out of free text is at the material call, where a
\* reply naming garden inside a word and then household gives household
C31_Witness ==
    \E t \in TaskIds :
        /\ pc[t] = "waste_type"
        /\ stage_log[t]["severity"] = "ok"
        /\ ctx[t].waste_size = Some("small_bag")
        /\ ENABLED (/\ ClassifyType(t, Txt(<<"gardening", "household">>))
                    /\ ctx'[t].waste_type = Some("household"))
        /\ ENABLED (/\ ClassifyType(t, Txt(<<"gardening", " ">>))
                    /\ ctx'[t].waste_type = Some("garden"))

\* the values the literal lists for a key, as the places they stand at
EntriesFor(key) ==
    { i \in 1..Len(POSTCODE_TO_COUNTY_LITERAL) : POSTCODE_TO_COUNTY_LITERAL[i][1] = key }

ListedTwice == { k \in KeySet : Cardinality(EntriesFor(k)) > 1 }

\* the value of the entry that stands last among those of a key
LaterEntry(key) ==
    POSTCODE_TO_COUNTY_LITERAL[CHOOSE i \in EntriesFor(key) :
                                   \A j \in EntriesFor(key) : j <= i][2]

\* the values that an entry further down the literal writes over
Overwritten ==
    { POSTCODE_TO_COUNTY_LITERAL[i][2] :
        i \in { i \in 1..Len(POSTCODE_TO_COUNTY_LITERAL) :
                  \E j \in EntriesFor(POSTCODE_TO_COUNTY_LITERAL[i][1]) : i < j } }

\* C32: keys the literal lists twice keep their later entry: NE, LE and PO are
\* the keys listed twice, a postcode whose longest matching key is one of them
\* resolves to Northumberland, Rutland or Isle of Wight, and no postcode
\* resolves to Tyne and Wear, Leicestershire or West Sussex.
C32_LastWriteWins ==
    /\ ListedTwice = { <<"N","E">>, <<"L","E">>, <<"P","O">> }
    /\ LaterEntry(<<"N","E">>) = "Northumberland"
    /\ LaterEntry(<<"L","E">>) = "Rutland"
    /\ LaterEntry(<<"P","O">>) = "Isle of Wight"
    /\ Overwritten = {"Tyne and Wear", "Leicestershire", "West Sussex"}
    /\ \A t \in TaskIds :
           Resolved(t)
               => LET best == Longest(MatchingKeys(ctx[t].postcode[1]))
                  IN  /\ best = { <<"N","E">> } => ctx[t].county[1] = "Northumberland"
                      /\ best = { <<"L","E">> } => ctx[t].county[1] = "Rutland"
                      /\ best = { <<"P","O">> } => ctx[t].county[1] = "Isle of Wight"
                      /\ ctx[t].county[1] \notin
                             {"Tyne and Wear", "Leicestershire", "West Sussex"}

C32_Witness ==
    \E t \in TaskIds :
        /\ Resolved(t)
        /\ ctx[t].postcode = Some(<<"P", "O", "1">>)
        /\ Longest(MatchingKeys(ctx[t].postcode[1])) = { <<"P","O">> }
        /\ ctx[t].county = Some("Isle of Wight")

\* C33: the severity buckets are a closed set of four with the multipliers
\* 1.0, 2.5, 5.0 and 15.0; whatever the severity service replies or raises,
\* the classifier returns a key of the multiplier table, and the impact
\* calculation that follows finds its multiplier and raises nothing.
C33_MultiplierLookupTotal ==
    /\ DOMAIN WASTE_SIZE_MULTIPLIERS = {"small_bag", "medium_bag", "large_bag", "van"}
    /\ WASTE_SIZE_MULTIPLIERS["small_bag"] = <<1, 1>>
    /\ WASTE_SIZE_MULTIPLIERS["medium_bag"] = <<5, 2>>
    /\ WASTE_SIZE_MULTIPLIERS["large_bag"] = <<5, 1>>
    /\ WASTE_SIZE_MULTIPLIERS["van"] = <<15, 1>>
    /\ \A t \in TaskIds :
           /\ ctx[t].waste_size # None
                  => ctx[t].waste_size[1] \in DOMAIN WASTE_SIZE_MULTIPLIERS
           /\ (ctx[t].waste_size # None /\ pc[t] \notin {"metrics", "except"})
                  => /\ ctx[t].metrics # None
                     /\ ctx[t].metrics[1].multiplier
                            = WASTE_SIZE_MULTIPLIERS[ctx[t].waste_size[1]]
           /\ ctx[t].exc # Some("KeyError")

\* a reply with no bucket alone in it gave van, and the calculation took 15.0
C33_Witness ==
    \E t \in TaskIds :
        /\ pc[t] = "waste_type"
        /\ stage_log[t]["severity"] = "ok"
        /\ ctx[t].waste_size = Some("van")
        /\ ctx[t].metrics # None
        /\ ctx[t].metrics[1].multiplier = <<15, 1>>
        /\ ctx[t].exc = None

\* C34: when every scheduled run is executed and every external call returns,
\* every submitted task reaches a terminal status: no record stays pending or
\* processing forever.
C34_Progress ==
    \A t \in TaskIds :
        (t \in Stored) ~> (t \in Stored /\ task_results[t].status \in Terminal)

\* the steps that move the run of t are the steps of RunStep(t), and they are
\* taken where CanStep(t) holds
AdvanceIsRunStep ==
    [][\A t \in TaskIds :
        /\ (pc'[t] # pc[t]) <=> RunStep(t)
        /\ (pc'[t] # pc[t]) => Advance(t)
      ]_vars

\* both tasks were submitted and both runs have ended, one each way
C34_Witness ==
    \E t, u \in TaskIds :
        /\ t \in Stored /\ u \in Stored
        /\ pc[t] = "done" /\ pc[u] = "done"
        /\ scheduled = {}
        /\ task_results[t].status = "completed"
        /\ task_results[u].status = "failed"

\* the run of t has started and has not returned
Running(t) == pc[t] \notin {"idle", "done"}

\* C35: the pipeline coroutine never suspends between the write of processing
\* and the write of the terminal status, so a run is one uninterrupted step
\* for the handlers: while a run is under way every step is a step of that
\* run, no result request is served inside it, and no answer ever shows
\* processing or a completed record without its result.
C35_RunUninterrupted ==
    [][/\ \A t \in TaskIds :
            Running(t) => /\ pc'[t] # pc[t]
                          /\ observed' = observed
                          /\ loop = t
       /\ (\E task_id \in TaskIds : get_analysis_result(task_id))
              => \A t \in TaskIds : ~Running(t)
       /\ \A t \in TaskIds :
            /\ observed'[t].status # "processing"
            /\ observed'[t].status = "completed"
                   => observed'[t].http = 200 /\ observed'[t].result # None
      ]_vars

\* a result request was answered after one run ended and while another task
\* was still waiting for its run
C35_Witness ==
    \E t, u \in TaskIds :
        /\ pc[t] = "done"
        /\ observed[t].status = "completed"
        /\ observed[t].result # None
        /\ \E run \in scheduled : run.task_id = u
        /\ observed[u].status = "pending"

\* C36: get_analysis_result reads and writes nothing: whatever the id and the
\* state of the store, and whatever it answers, the store after the call is
\* the store before it, and no run is scheduled, started or moved by it.
C36_ReadOnly ==
    [][\A task_id \in TaskIds :
        get_analysis_result(task_id)
            => /\ task_results' = task_results
               /\ scheduled' = scheduled
               /\ pc' = pc
               /\ observed'[task_id].http = 404 <=> task_id \notin Stored
      ]_vars

\* an unknown id was answered not-found and made no record, and a failed task
\* was answered failed with its record as the run left it
C36_Witness ==
    \E t, u \in TaskIds :
        /\ t \notin Stored
        /\ observed[t] = NotFound
        /\ u \in Stored
        /\ observed[u].status = "failed"
        /\ task_results[u].status = "failed"
        /\ task_results[u].error = observed[u].error
        /\ task_results[u].result = None

============================================================================
